---------------------------- MODULE Spec2Model ----------------------------
(***************************************************************************)
(* read_config.py: print the value of one (section, key) pair of an INI    *)
(* file, with a synthetic "[__TOP__]" header chained in front of the file. *)
(*                                                                         *)
(* Text is modelled as sequences of one-character strings, so that the     *)
(* parser's stripping, header and option matching, lower-casing and        *)
(* %-interpolation are computed character by character.  A line is         *)
(* modelled without its line terminator: the terminator is whitespace and  *)
(* the parser strips every line before it looks at it.                     *)
(***************************************************************************)
EXTENDS Integers, Sequences, FiniteSets, TLC

\* ------------------------------------------------------------------ bounds

\* The longest configuration file (in lines) the model reads.
MaxLines == 3

\* ------------------------------------------------------------- text helpers

NL == "\n"

IsSpace(c) == c \in {" ", "\t", NL}

UpperCase == <<"A","B","C","D","E","F","G","H","I","J","K","L","M",
               "N","O","P","Q","R","S","T","U","V","W","X","Y","Z">>
LowerCase == <<"a","b","c","d","e","f","g","h","i","j","k","l","m",
               "n","o","p","q","r","s","t","u","v","w","x","y","z">>

LowerChar(c) ==
    IF \E i \in 1..Len(UpperCase) : UpperCase[i] = c
    THEN LowerCase[CHOOSE i \in 1..Len(UpperCase) : UpperCase[i] = c]
    ELSE c

\* str.lower()
Lower(s) == [i \in 1..Len(s) |-> LowerChar(s[i])]

\* Positions of s holding a non-space character.
NonSpace(s) == {i \in 1..Len(s) : ~IsSpace(s[i])}

Min(S) == CHOOSE x \in S : \A y \in S : x <= y
Max(S) == CHOOSE x \in S : \A y \in S : x >= y

\* str.strip(), str.rstrip()
Strip(s) == IF NonSpace(s) = {} THEN <<>>
            ELSE SubSeq(s, Min(NonSpace(s)), Max(NonSpace(s)))
RStrip(s) == IF NonSpace(s) = {} THEN <<>>
             ELSE SubSeq(s, 1, Max(NonSpace(s)))

\* Positions of s holding one of the characters of cs.
Positions(s, cs) == {i \in 1..Len(s) : s[i] \in cs}

\* '\n'.join(list)
RECURSIVE JoinLines(_)
JoinLines(l) == IF l = <<>> THEN <<>>
                ELSE IF Len(l) = 1 THEN l[1]
                ELSE l[1] \o <<NL>> \o JoinLines(Tail(l))

\* -------------------------------------------------------------- the parser

\* Python's None, as a name no text equals.
None == <<"<None>">>

\* configparser.DEFAULTSECT
DEFAULTSECT == <<"D","E","F","A","U","L","T">>

\* The name of the section whose header the program chains before the file.
TOP == <<"_","_","T","O","P","_","_">>

\* The line the program chains before the file: "[__TOP__]".
TopLine == <<"[">> \o TOP \o <<"]">>

\* configparser.MAX_INTERPOLATION_DEPTH
MAX_INTERPOLATION_DEPTH == 10

EmptyDict == [x \in {} |-> <<>>]

\* ConfigParser(): no sections, no defaults; the locals of _read() before
\* its loop.  cursect is the dictionary sectname names (the defaults for
\* DEFAULTSECT), elements_added is kept as its section names and its
\* (section, option) pairs; e is "a ParsingError is pending"; exc is the
\* exception _read() raised.
NewParser ==
    [sections       |-> EmptyDict,
     defaults       |-> EmptyDict,
     added_sections |-> {},
     added_options  |-> {},
     sectname       |-> None,
     optname        |-> None,
     indent_level   |-> 0,
     e              |-> FALSE,
     exc            |-> "none"]

\* cursect
CurSect(st) == IF st.sectname = DEFAULTSECT THEN st.defaults
               ELSE st.sections[st.sectname]

\* cursect[key] = val
SetCur(st, key, val) ==
    IF st.sectname = DEFAULTSECT
    THEN [st EXCEPT !.defaults = (key :> val) @@ st.defaults]
    ELSE [st EXCEPT !.sections =
            (st.sectname :> ((key :> val) @@ st.sections[st.sectname]))
            @@ st.sections]

\* Python truth of optname: None and "" are false.
Truthy(s) == s # None /\ s # <<>>

\* line.strip().startswith(prefix) for the comment prefixes '#' and ';'
IsComment(line) == Strip(line) # <<>> /\ Head(Strip(line)) \in {"#", ";"}

\* SECTCRE.match(value): "[", a header of at least one character, "]"; the
\* header is greedy, so it runs to the last "]".
SectMatch(value) ==
    /\ Len(value) >= 3
    /\ value[1] = "["
    /\ \E i \in 3..Len(value) : value[i] = "]"
SectHeader(value) ==
    SubSeq(value, 2, Max({i \in 3..Len(value) : value[i] = "]"}) - 1)

\* OPTCRE.match(value): the option is lazy, so the delimiter is the first
\* '=' or ':' of the line.
OptMatch(value) == Positions(value, {"=", ":"}) # {}
OptDelim(value) == Min(Positions(value, {"=", ":"}))
OptName(value)  == RStrip(SubSeq(value, 1, OptDelim(value) - 1))
OptValue(value) == Strip(SubSeq(value, OptDelim(value) + 1, Len(value)))

\* NONSPACECRE.search(line).start()
IndentOf(line) == IF NonSpace(line) = {} THEN 0 ELSE Min(NonSpace(line)) - 1

\* ReadSection without strict mode: a repeated header reopens its section.
ReadSection_NotStrict(st, name) ==
    IF name \in DOMAIN st.sections
    THEN [st EXCEPT !.sectname = name,
                    !.added_sections = @ \cup {name},
                    !.optname = None]
    ELSE IF name = DEFAULTSECT
    THEN [st EXCEPT !.sectname = name, !.optname = None]
    ELSE [st EXCEPT !.sections = (name :> EmptyDict) @@ @,
                    !.sectname = name,
                    !.added_sections = @ \cup {name},
                    !.optname = None]

\* ReadSection that creates a new section and forgets to make it current.
ReadSection_NoSwitch(st, name) ==
    IF name \in DOMAIN st.sections
    THEN IF name \in st.added_sections
         THEN [st EXCEPT !.exc = "DuplicateSectionError"]
         ELSE [st EXCEPT !.sectname = name,
                         !.added_sections = @ \cup {name},
                         !.optname = None]
    ELSE IF name = DEFAULTSECT
    THEN [st EXCEPT !.sectname = name, !.optname = None]
    ELSE [st EXCEPT !.sections = (name :> EmptyDict) @@ @,
                    !.sectname = IF @ = None THEN name ELSE @,
                    !.added_sections = @ \cup {name},
                    !.optname = None]

\* A "[header]" line.
ReadSection(st, name) ==
    IF name \in DOMAIN st.sections
    THEN IF name \in st.added_sections
         THEN [st EXCEPT !.exc = "DuplicateSectionError"]
         ELSE [st EXCEPT !.sectname = name,
                         !.added_sections = @ \cup {name},
                         !.optname = None]
    ELSE IF name = DEFAULTSECT
    THEN [st EXCEPT !.sectname = name, !.optname = None]
    ELSE [st EXCEPT !.sections = (name :> EmptyDict) @@ @,
                    !.sectname = name,
                    !.added_sections = @ \cup {name},
                    !.optname = None]

\* optionxform
OptionXForm(optionstr) == Lower(optionstr)

\* ReadOption without strict mode: a repeated option overrides the earlier one.
ReadOption_LastWins(st, value) ==
    SetCur([st EXCEPT !.e = @ \/ OptName(value) = <<>>,
                      !.optname = OptionXForm(OptName(value)),
                      !.added_options =
                          @ \cup {<<st.sectname, OptionXForm(OptName(value))>>}],
           OptionXForm(OptName(value)), <<OptValue(value)>>)

\* A "name = value" line.
ReadOption(st, value) ==
    LET name == OptionXForm(OptName(value))
        st1  == [st EXCEPT !.e = @ \/ OptName(value) = <<>>,
                           !.optname = name]
    IN  IF <<st.sectname, name>> \in st.added_options
        THEN [st1 EXCEPT !.exc = "DuplicateOptionError"]
        ELSE SetCur([st1 EXCEPT !.added_options = @ \cup {<<st.sectname, name>>}],
                    name, <<OptValue(value)>>)

\* The body of the loop of _read(): one line of the stream.
ReadLine(st, line) ==
    LET value == IF IsComment(line) THEN <<>> ELSE Strip(line)
    IN  IF value = <<>>
        THEN IF ~IsComment(line) /\ st.sectname # None /\ Truthy(st.optname)
             THEN SetCur(st, st.optname, Append(CurSect(st)[st.optname], <<>>))
             ELSE st
        ELSE IF st.sectname # None /\ Truthy(st.optname)
                /\ IndentOf(line) > st.indent_level
        THEN SetCur(st, st.optname, Append(CurSect(st)[st.optname], value))
        ELSE LET st1 == [st EXCEPT !.indent_level = IndentOf(line)]
             IN  IF SectMatch(value) THEN ReadSection(st1, SectHeader(value))
                 ELSE IF st1.sectname = None
                 THEN [st1 EXCEPT !.exc = "MissingSectionHeaderError"]
                 ELSE IF OptMatch(value) THEN ReadOption(st1, value)
                 ELSE [st1 EXCEPT !.e = TRUE]

\* _join_multiline_values(): every value becomes its lines joined by
\* newlines, right-stripped.
JoinDict(d) == [k \in DOMAIN d |-> RStrip(JoinLines(d[k]))]
JoinMultilineValues(st) ==
    [st EXCEPT !.defaults = JoinDict(@),
               !.sections = [n \in DOMAIN @ |-> JoinDict(@[n])]]

\* The end of _read(): join the values, then raise the pending ParsingError.
EndRead(st) ==
    LET st1 == JoinMultilineValues(st)
    IN  IF st.e THEN [st1 EXCEPT !.exc = "ParsingError"] ELSE st1

\* parser.read_file(lines), as a whole: the loop over the lines, stopped by
\* the first exception, then the end of _read().
RECURSIVE ReadLines(_, _)
ReadLines(st, lines) ==
    IF lines = <<>> \/ st.exc # "none" THEN st
    ELSE ReadLines(ReadLine(st, Head(lines)), Tail(lines))
ReadFile(lines) ==
    IF ReadLines(NewParser, lines).exc # "none" THEN ReadLines(NewParser, lines)
    ELSE EndRead(ReadLines(NewParser, lines))

\* ----------------------------------------------------------- the lookup

\* _KEYCRE.match(rest), for a rest that starts with "%(": a name of at least
\* one character other than ")", then ")s".
KeyClose(rest) == Min(Positions(rest, {")"}) \cap 3..Len(rest))
KeyMatch(rest) ==
    /\ Positions(rest, {")"}) \cap 3..Len(rest) # {}
    /\ KeyClose(rest) >= 4
    /\ Len(rest) > KeyClose(rest)
    /\ rest[KeyClose(rest) + 1] = "s"

\* The outcome of an interpolation: what was accumulated, or the exception.
Accum(out) == [exc |-> "none", out |-> out]
Raise(name) == [exc |-> name, out |-> <<>>]
Then(r1, r2) == IF r1.exc # "none" THEN r1
                ELSE IF r2.exc # "none" THEN r2
                ELSE Accum(r1.out \o r2.out)

\* BasicInterpolation._interpolate_some(): map is the section's options
\* chained over the defaults.
RECURSIVE InterpolateSome(_, _, _)
InterpolateSome(rest, map, depth) ==
    IF depth > MAX_INTERPOLATION_DEPTH THEN Raise("InterpolationDepthError")
    ELSE IF rest = <<>> THEN Accum(<<>>)
    ELSE IF Positions(rest, {"%"}) = {} THEN Accum(rest)
    ELSE LET p == Min(Positions(rest, {"%"}))
             r == SubSeq(rest, p, Len(rest))
             c == IF Len(r) >= 2 THEN r[2] ELSE ""
         IN  Then(Accum(SubSeq(rest, 1, p - 1)),
               IF c = "%"
               THEN Then(Accum(<<"%">>),
                         InterpolateSome(SubSeq(r, 3, Len(r)), map, depth))
               ELSE IF c = "("
               THEN IF ~KeyMatch(r) THEN Raise("InterpolationSyntaxError")
                    ELSE LET var == OptionXForm(SubSeq(r, 3, KeyClose(r) - 1))
                             after == SubSeq(r, KeyClose(r) + 2, Len(r))
                         IN  IF var \notin DOMAIN map
                             THEN Raise("InterpolationMissingOptionError")
                             ELSE Then(IF Positions(map[var], {"%"}) # {}
                                       THEN InterpolateSome(map[var], map, depth + 1)
                                       ELSE Accum(map[var]),
                                       InterpolateSome(after, map, depth))
               ELSE Raise("InterpolationSyntaxError"))

\* _unify_values(section, None): the section's options over the defaults.
UnifyValues(st, section) ==
    IF section \in DOMAIN st.sections THEN st.sections[section] @@ st.defaults
    ELSE st.defaults

\* Get whose fallback covers the missing section only: a missing option
\* raises NoOptionError.
Get_NoOptionError(st, section, option) ==
    IF section \notin DOMAIN st.sections /\ section # DEFAULTSECT
    THEN Accum(<<>>)
    ELSE IF OptionXForm(option) \notin DOMAIN UnifyValues(st, section)
    THEN Raise("NoOptionError")
    ELSE InterpolateSome(UnifyValues(st, section)[OptionXForm(option)],
                         UnifyValues(st, section), 1)

\* Get that matches the section name without regard to case.
Get_FoldsSection(st, section, option) ==
    LET same == {n \in DOMAIN st.sections : Lower(n) = Lower(section)}
        d    == IF same = {} THEN st.defaults
                ELSE st.sections[CHOOSE n \in same : TRUE] @@ st.defaults
    IN  IF same = {} /\ section # DEFAULTSECT THEN Accum(<<>>)
        ELSE IF OptionXForm(option) \notin DOMAIN d THEN Accum(<<>>)
        ELSE InterpolateSome(d[OptionXForm(option)], d, 1)

\* Get that looks the option up as it was typed.
Get_NoOptionXForm(st, section, option) ==
    IF section \notin DOMAIN st.sections /\ section # DEFAULTSECT
    THEN Accum(<<>>)
    ELSE IF option \notin DOMAIN UnifyValues(st, section)
    THEN Accum(<<>>)
    ELSE InterpolateSome(UnifyValues(st, section)[option],
                         UnifyValues(st, section), 1)

\* parser.get(section, option, fallback=""): the fallback when the section
\* or the option is missing, else the interpolated value.
Get(st, section, option) ==
    IF section \notin DOMAIN st.sections /\ section # DEFAULTSECT
    THEN Accum(<<>>)
    ELSE IF OptionXForm(option) \notin DOMAIN UnifyValues(st, section)
    THEN Accum(<<>>)
    ELSE InterpolateSome(UnifyValues(st, section)[OptionXForm(option)],
                         UnifyValues(st, section), 1)

\* -------------------------------------------------------------- the inputs

\* Lines a configuration file is made of.
Blank      == <<>>
Comment    == <<"#","c">>
SecA       == <<"[","a","]">>
SecDefault == <<"[">> \o DEFAULTSECT \o <<"]">>
KeyLower   == <<"k","=","v">>
KeyUpper   == <<"K"," ",":"," ","w">>
KeyRef     == <<"j","=","%","(","K",")","s">>
KeyPercent == <<"j","=","5","%">>
Indented   == <<" ","x">>

LineSet == {Blank, Comment, SecA, SecDefault, TopLine, KeyLower, KeyUpper,
            KeyRef, KeyPercent, Indented}

RECURSIVE LinesUpTo(_)
LinesUpTo(n) ==
    IF n = 0 THEN {<<>>}
    ELSE LinesUpTo(n - 1)
         \cup {Append(l, x) : l \in {m \in LinesUpTo(n - 1) : Len(m) = n - 1},
                              x \in LineSet}

\* What the path names: nothing (open() fails), bytes that are not UTF-8,
\* or a text file.
MissingFile == [exists |-> FALSE, decodable |-> FALSE, lines |-> <<>>]
BinaryFile  == [exists |-> TRUE, decodable |-> FALSE, lines |-> <<>>]
TextFile(l) == [exists |-> TRUE, decodable |-> TRUE, lines |-> l]
Files == {MissingFile, BinaryFile} \cup {TextFile(l) : l \in LinesUpTo(MaxLines)}

Program  == <<"r","c">>
Path     == <<"f">>
Sections == {TOP, <<"a">>, <<"A">>, DEFAULTSECT}
Keys     == {<<"k">>, <<"K">>, <<"j">>}

\* sys.argv with all three arguments, and with too few.
FullArgv  == {<<Program, Path, s, k>> : s \in Sections, k \in Keys}
ShortArgv == {<<Program>>, <<Program, Path>>}
             \cup {<<Program, Path, s>> : s \in Sections}

\* ------------------------------------------------------------- the program

VARIABLES
    argv,         \* sys.argv
    file,         \* what sys.argv[1] names in the file system
    pc,           \* where the script is
    config_file,  \* the file object: "unopened", "open" or "closed"
    lineno,       \* how many lines of the chained stream were read
    parser,       \* the ConfigParser and the locals of its _read()
    exc,          \* the exception that is propagating, or "none"
    stdout,       \* the characters written to standard output
    stderr,       \* the lines written to standard error
    exitStatus    \* <<>> while the process runs, then <<status>>

vars == <<argv, file, pc, config_file, lineno, parser, exc, stdout, stderr,
          exitStatus>>

Init ==
    /\ \/ argv \in FullArgv /\ file \in Files
       \/ argv \in ShortArgv
          /\ file \in {MissingFile, BinaryFile, TextFile(<<KeyLower>>)}
    /\ pc = "check_arguments"
    /\ config_file = "unopened"
    /\ lineno = 0
    /\ parser = NewParser
    /\ exc = "none"
    /\ stdout = <<>>
    /\ stderr = <<>>
    /\ exitStatus = <<>>

\* fixed_config_file = chain(("[__TOP__]",), config_file)
FixedConfigFile == <<TopLine>> \o file.lines

\* CheckArguments that counts the program name as an argument.
CheckArguments_OffByOne ==
    /\ pc = "check_arguments"
    /\ IF Len(argv) < 3
       THEN /\ stderr' = Append(stderr, "Missing arguments")
            /\ exitStatus' = <<(-1) % 256>>
            /\ pc' = "exited"
       ELSE /\ pc' = "open"
            /\ UNCHANGED <<stderr, exitStatus>>
    /\ UNCHANGED <<argv, file, config_file, lineno, parser, exc, stdout>>

\* if len(sys.argv) < 4: print to stderr and sys.exit(-1); the status the
\* parent sees is -1 modulo 256.
CheckArguments ==
    /\ pc = "check_arguments"
    /\ IF Len(argv) < 4
       THEN /\ stderr' = Append(stderr, "Missing arguments")
            /\ exitStatus' = <<(-1) % 256>>
            /\ pc' = "exited"
       ELSE /\ pc' = "open"
            /\ UNCHANGED <<stderr, exitStatus>>
    /\ UNCHANGED <<argv, file, config_file, lineno, parser, exc, stdout>>

\* parser = ConfigParser(); open(sys.argv[1], encoding="utf8")
OpenFile ==
    /\ pc = "open"
    /\ IF file.exists
       THEN /\ config_file' = "open"
            /\ pc' = "read_file"
            /\ exc' = exc
       ELSE /\ exc' = "FileNotFoundError"
            /\ pc' = "raise"
            /\ config_file' = config_file
    /\ parser' = NewParser
    /\ UNCHANGED <<argv, file, lineno, stdout, stderr, exitStatus>>

\* One turn of the loop of parser.read_file(): the next line of the chain.
\* The synthetic line comes first; the first read of the file itself
\* decodes it and fails on bytes that are not UTF-8.
ReadNextLine ==
    /\ pc = "read_file"
    /\ \/ lineno < Len(FixedConfigFile)
       \/ ~file.decodable
    /\ IF lineno >= 1 /\ ~file.decodable
       THEN /\ exc' = "UnicodeDecodeError"
            /\ pc' = "exit_with"
            /\ UNCHANGED <<parser, lineno>>
       ELSE /\ lineno' = lineno + 1
            /\ parser' = ReadLine(parser, FixedConfigFile[lineno + 1])
            /\ exc' = parser'.exc
            /\ pc' = IF parser'.exc # "none" THEN "exit_with" ELSE "read_file"
    /\ UNCHANGED <<argv, file, config_file, stdout, stderr, exitStatus>>

\* The stream is exhausted: the end of _read().
EndOfFile ==
    /\ pc = "read_file"
    /\ file.decodable
    /\ lineno = Len(FixedConfigFile)
    /\ parser' = EndRead(parser)
    /\ exc' = parser'.exc
    /\ pc' = "exit_with"
    /\ UNCHANGED <<argv, file, config_file, lineno, stdout, stderr, exitStatus>>

\* ExitWith that closes the file on the normal path only.
ExitWith_LeaksOnError ==
    /\ pc = "exit_with"
    /\ config_file' = IF exc # "none" THEN config_file ELSE "closed"
    /\ pc' = IF exc # "none" THEN "raise" ELSE "get"
    /\ UNCHANGED <<argv, file, lineno, parser, exc, stdout, stderr, exitStatus>>

\* Leaving the with block, normally or by an exception, closes the file.
ExitWith ==
    /\ pc = "exit_with"
    /\ config_file' = "closed"
    /\ pc' = IF exc # "none" THEN "raise" ELSE "get"
    /\ UNCHANGED <<argv, file, lineno, parser, exc, stdout, stderr, exitStatus>>

\* print(parser.get(sys.argv[2], sys.argv[3], fallback=""))
PrintValue ==
    /\ pc = "get"
    /\ LET r == Get(parser, argv[3], argv[4])
       IN  IF r.exc # "none"
           THEN /\ exc' = r.exc
                /\ pc' = "raise"
                /\ stdout' = stdout
           ELSE /\ stdout' = stdout \o r.out \o <<NL>>
                /\ pc' = "end"
                /\ exc' = exc
    /\ UNCHANGED <<argv, file, config_file, lineno, parser, stderr, exitStatus>>

\* The script ends: the interpreter exits with status 0.
EndOfScript ==
    /\ pc = "end"
    /\ exitStatus' = <<0>>
    /\ pc' = "exited"
    /\ UNCHANGED <<argv, file, config_file, lineno, parser, exc, stdout, stderr>>

\* An exception nobody catches: the interpreter prints the traceback to
\* standard error and exits with status 1.
UncaughtException ==
    /\ pc = "raise"
    /\ stderr' = Append(stderr, "Traceback")
    /\ exitStatus' = <<1>>
    /\ pc' = "exited"
    /\ UNCHANGED <<argv, file, config_file, lineno, parser, exc, stdout>>

Next ==
    \/ CheckArguments
    \/ OpenFile
    \/ ReadNextLine
    \/ EndOfFile
    \/ ExitWith
    \/ PrintValue
    \/ EndOfScript
    \/ UncaughtException

Spec == Init /\ [][Next]_vars

\* ------------------------------------------------- vocabulary of the claims

Done       == pc = "exited"
HasArgs    == Len(argv) >= 4
ArgSection == argv[3]
ArgKey     == argv[4]

\* The exceptions of opening, reading and parsing the file.
ReadErrors == {"FileNotFoundError", "UnicodeDecodeError", "DuplicateSectionError",
               "DuplicateOptionError", "MissingSectionHeaderError", "ParsingError"}

\* The file was opened, read and parsed without error, and closed: parser
\* holds the parsed file.
ValidFile == config_file = "closed" /\ exc \notin ReadErrors

\* The text of the file, line by line.  A line that starts in the first
\* column is never a continuation line, so it is a header or an assignment
\* by its own shape.
Significant(l)  == Strip(l) # <<>> /\ ~IsComment(l)
IsHeaderLine(l) == Significant(l) /\ IndentOf(l) = 0 /\ SectMatch(Strip(l))
IsOptionLine(l) ==
    Significant(l) /\ IndentOf(l) = 0 /\ ~SectMatch(Strip(l)) /\ OptMatch(Strip(l))
HeaderLines == {i \in 1..Len(file.lines) : IsHeaderLine(file.lines[i])}
OptionLines == {i \in 1..Len(file.lines) : IsOptionLine(file.lines[i])}
HeaderAt(i) == SectHeader(Strip(file.lines[i]))
KeyAt(i)    == Lower(OptName(Strip(file.lines[i])))

\* The sections the file itself names.
FileSections == {HeaderAt(i) : i \in HeaderLines}

\* The section line i of the file belongs to.
SectionAt(i) ==
    IF HeaderLines \cap 1..(i - 1) = {} THEN TOP
    ELSE HeaderAt(Max(HeaderLines \cap 1..(i - 1)))

\* The options the parsed file holds under a section name.
OptionsOf(name) ==
    IF name = DEFAULTSECT THEN parser.defaults
    ELSE IF name \in DOMAIN parser.sections THEN parser.sections[name]
    ELSE EmptyDict

\* The process wrote v and a newline to standard output and exited with 0.
Printed(v) == stdout = v \o <<NL>> /\ exitStatus = <<0>>

\* The first line of the file that is neither blank nor a comment.
HasSignificant == \E i \in 1..Len(file.lines) : Significant(file.lines[i])
FirstSignificant ==
    file.lines[Min({i \in 1..Len(file.lines) : Significant(file.lines[i])})]

\* ------------------------------------------------------------------ claims

\* C1: for a file that parses without error and holds section S with key K
\* assigned V, the run with (F, S, K) writes exactly V and exits with 0.
C1_Claim ==
    (Done /\ HasArgs /\ ValidFile /\ ArgSection \in FileSections
          /\ Lower(ArgKey) \in DOMAIN OptionsOf(ArgSection))
    => Printed(OptionsOf(ArgSection)[Lower(ArgKey)])

\* C2 as stated: for a file that parses without error and holds section S
\* but no key K inside S, the run writes the empty string and exits with 0.
C2_Original ==
    (Done /\ HasArgs /\ ValidFile /\ ArgSection \in FileSections
          /\ Lower(ArgKey) \notin DOMAIN OptionsOf(ArgSection))
    => Printed(<<>>)

\* C2 amended: for a file that parses without error and holds section S, but
\* key K neither inside S nor inside the DEFAULT section, the run writes the
\* empty string and exits with 0.
C2_Amended ==
    (Done /\ HasArgs /\ ValidFile /\ ArgSection \in FileSections
          /\ Lower(ArgKey) \notin DOMAIN OptionsOf(ArgSection)
          /\ Lower(ArgKey) \notin DOMAIN parser.defaults)
    => Printed(<<>>)

\* The run ended for a section that holds other keys than the one asked for.
C2_Witness ==
    /\ Done /\ HasArgs /\ ValidFile /\ ArgSection \in FileSections
    /\ Lower(ArgKey) \notin DOMAIN OptionsOf(ArgSection)
    /\ Lower(ArgKey) \notin DOMAIN parser.defaults
    /\ OptionsOf(ArgSection) # EmptyDict
    /\ Printed(<<>>)

\* C3: for a file that parses without error, a section name that does not
\* occur in the file and is not __TOP__ gives the empty string and exit
\* status 0, whatever the key is.
C3_Theorem ==
    (Done /\ HasArgs /\ ValidFile /\ ArgSection \notin FileSections
          /\ ArgSection # TOP)
    => Printed(<<>>)

\* The run ended for a section name that differs only in case from a section
\* of the file that holds the key.
C3_Witness ==
    /\ Done /\ HasArgs /\ ValidFile /\ ArgSection \notin FileSections
    /\ ArgSection # TOP
    /\ \E n \in FileSections :
          Lower(n) = Lower(ArgSection) /\ Lower(ArgKey) \in DOMAIN OptionsOf(n)
    /\ Printed(<<>>)

\* C4: with fewer than three arguments the program writes "Missing
\* arguments" to standard error, exits with a non-zero status (-1, seen as
\* 255), writes nothing to standard output, and never tries to open the file.
C4_Theorem ==
    Len(argv) < 4 =>
        /\ config_file = "unopened"
        /\ exc = "none"
        /\ stdout = <<>>
        /\ Done => /\ stderr = <<"Missing arguments">>
                   /\ exitStatus = <<255>>

\* The run ended with too few arguments, one of them the path of a file that
\* does not exist.
C4_Witness ==
    /\ Done /\ Len(argv) = 3 /\ ~file.exists
    /\ stderr = <<"Missing arguments">> /\ exitStatus = <<255>>

\* C5: for a file that parses without error and whose first non-blank line
\* is an assignment with no header before it, looking that key up under
\* __TOP__ writes the assigned value and exits with 0.
C5_Claim ==
    (Done /\ HasArgs /\ ValidFile /\ ArgSection = TOP
          /\ HasSignificant /\ IsOptionLine(FirstSignificant)
          /\ Lower(ArgKey) = Lower(OptName(Strip(FirstSignificant))))
    => Printed(OptionsOf(TOP)[Lower(ArgKey)])

\* C6: a failure to open, read or parse the file ends the process with a
\* non-zero status and nothing on standard output; it never becomes the
\* empty-string fallback.  The failures are the exceptions of open() and
\* read_file(), a missing or undecodable file, and a repeated section header.
RepeatedHeader ==
    \/ \E i \in HeaderLines : HeaderAt(i) = TOP
    \/ \E i, j \in HeaderLines :
          i < j /\ HeaderAt(i) = HeaderAt(j) /\ HeaderAt(i) # DEFAULTSECT
C6_Theorem ==
    /\ exc \in ReadErrors => stdout = <<>> /\ (Done => exitStatus = <<1>>)
    /\ (Done /\ HasArgs
          /\ (~file.exists \/ ~file.decodable \/ RepeatedHeader))
       => (stdout = <<>> /\ exitStatus = <<1>> /\ exc \in ReadErrors)

\* The run ended on a file that repeats a section header.
C6_Witness ==
    /\ Done /\ HasArgs /\ file.exists /\ file.decodable /\ RepeatedHeader
    /\ exc = "DuplicateSectionError" /\ exitStatus = <<1>> /\ stdout = <<>>

\* C7 as stated: when a key is assigned more than once inside one section,
\* the lookup of that key gives the value of the last assignment and the
\* process exits with 0.
Assigns(i, name, key) ==
    i \in OptionLines /\ SectionAt(i) = name /\ KeyAt(i) = key
C7_Original ==
    (Done /\ HasArgs /\ file.exists /\ file.decodable)
    => \A i, j \in OptionLines :
          (/\ i < j
           /\ Assigns(i, ArgSection, Lower(ArgKey))
           /\ Assigns(j, ArgSection, Lower(ArgKey))
           /\ \A m \in OptionLines :
                 m > j => ~Assigns(m, ArgSection, Lower(ArgKey)))
          => Printed(OptValue(Strip(file.lines[j])))

\* C7 amended: when a key (compared after lower-casing) is assigned more than
\* once inside one section of the file, reading the file fails: the process
\* exits with a non-zero status and writes nothing to standard output.
AssignedTwice ==
    \E i, j \in OptionLines :
        i < j /\ SectionAt(i) = SectionAt(j) /\ KeyAt(i) = KeyAt(j)
C7_Amended ==
    (Done /\ HasArgs /\ file.exists /\ file.decodable /\ AssignedTwice)
    => (exc \in ReadErrors /\ exitStatus = <<1>> /\ stdout = <<>>)

\* The run ended on a file that assigns the key asked for twice in the
\* section asked for.
C7_Witness ==
    /\ Done /\ HasArgs /\ file.exists /\ file.decodable
    /\ \E i, j \in OptionLines :
          /\ i < j
          /\ Assigns(i, ArgSection, Lower(ArgKey))
          /\ Assigns(j, ArgSection, Lower(ArgKey))
    /\ exc = "DuplicateOptionError" /\ exitStatus = <<1>>

\* C8: on every path that opens the file, the file is closed before the
\* process terminates, and on the success path it is closed before the value
\* is looked up and written.
C8_Theorem ==
    /\ pc \in {"get", "end", "raise", "exited"} => config_file # "open"
    /\ stdout # <<>> => config_file = "closed"
    /\ (Done /\ HasArgs /\ file.exists) => config_file = "closed"

\* The process ended by a parse error, the file opened and closed.
C8_Witness ==
    /\ Done /\ config_file = "closed"
    /\ exc \in {"DuplicateSectionError", "DuplicateOptionError", "ParsingError"}

\* C9 as stated, for a file that parses without error: when the first line
\* that is neither blank nor a comment is a section header, looking up any
\* key under __TOP__ writes the empty string and exits with 0.
HeaderFirst == HasSignificant /\ SectMatch(Strip(FirstSignificant))
C9_Original ==
    (Done /\ HasArgs /\ ValidFile /\ HeaderFirst /\ ArgSection = TOP)
    => Printed(<<>>)

\* C9 amended: when the file parses without error and its first line that is
\* neither blank nor a comment is a section header, the __TOP__ section holds
\* no option; looking up under __TOP__ a key that the DEFAULT section does
\* not define writes the empty string and exits with 0; and the lookup in
\* one of the file's own sections ends as it does on the file read without
\* the prepended header.
C9_Amended ==
    (Done /\ HasArgs /\ ValidFile /\ HeaderFirst)
    => /\ parser.sections[TOP] = EmptyDict
       /\ (ArgSection = TOP /\ Lower(ArgKey) \notin DOMAIN parser.defaults)
          => Printed(<<>>)
       /\ ArgSection \in FileSections \cup {DEFAULTSECT}
          => /\ ReadFile(file.lines).exc = "none"
             /\ LET r == Get(ReadFile(file.lines), ArgSection, ArgKey)
                IN  IF r.exc = "none" THEN Printed(r.out)
                    ELSE stdout = <<>> /\ exitStatus = <<1>>

\* The run ended with a value read from a section that follows the
\* prepended header.
C9_Witness ==
    /\ Done /\ HasArgs /\ ValidFile /\ HeaderFirst
    /\ ArgSection \in FileSections
    /\ Lower(ArgKey) \in DOMAIN OptionsOf(ArgSection)
    /\ exitStatus = <<0>>

\* C10: section names are matched exactly, key names are lower-cased both
\* when the file is parsed and when the key is looked up, so the run for key
\* K ends as the lookup of any case variant of K does.
C10_Theorem ==
    /\ \A n \in DOMAIN parser.sections :
          \A k \in DOMAIN parser.sections[n] : k = Lower(k)
    /\ \A k \in DOMAIN parser.defaults : k = Lower(k)
    /\ (Done /\ HasArgs /\ ValidFile)
       => /\ \A i \in OptionLines :
                SectionAt(i) = ArgSection /\ KeyAt(i) = Lower(ArgKey)
                => Lower(ArgKey) \in DOMAIN OptionsOf(ArgSection)
          /\ \A k \in Keys :
                Lower(k) = Lower(ArgKey)
                => LET r == Get(parser, ArgSection, k)
                   IN  IF r.exc = "none" THEN Printed(r.out)
                       ELSE stdout = <<>> /\ exitStatus = <<1>>
          /\ (ArgSection \notin FileSections \cup {TOP, DEFAULTSECT})
             => Printed(<<>>)

\* The run for an upper-case key ended with the value the file assigns to
\* the lower-case key.
C10_Witness ==
    /\ Done /\ HasArgs /\ ValidFile
    /\ ArgKey # Lower(ArgKey)
    /\ \E i \in OptionLines :
          /\ SectionAt(i) = ArgSection
          /\ OptName(Strip(file.lines[i])) = Lower(ArgKey)
          /\ Printed(OptValue(Strip(file.lines[i])))

=============================================================================
